---- MODULE Spec2Model ----
(***************************************************************************)
(* A model of the QuickStats dashboard widget                              *)
(* (client/src/components/dashboard/quick-stats.tsx): the debtor list it   *)
(* derives from the customer collection, and the payment dialog with its   *)
(* mutation.                                                               *)
(*                                                                         *)
(* Text the code parses (totalDebt, createdAt, the draft amount) is a      *)
(* sequence of one-character strings, so that parseFloat and Date parsing  *)
(* are computed character by character.  Numbers are JavaScript numbers    *)
(* restricted to two decimals, held in hundredths: [nan, v].               *)
(***************************************************************************)
EXTENDS Integers, Sequences, FiniteSets, TLC

VARIABLES
  customers,         \* useQuery data (default [])
  isLoading,         \* useQuery isLoading
  fetching,          \* a fetch of /api/customers is under way
  sortOrder,         \* useState "highest" | "newest"
  sortImpl,          \* the engine's Array.prototype.sort algorithm
  debtorCustomers,   \* the list derived at the last render
  showPaymentModal,  \* useState boolean
  selectedCustomer,  \* useState Customer | null
  paymentAmount,     \* useState string
  isPending,         \* paymentMutation.isPending
  inflight,          \* payment requests issued and not yet completed
  toastOut,          \* the notification shown by the last step
  invalidated,       \* query keys invalidated by the last step
  refetched,         \* query keys refetched by the last step
  issued,            \* payment requests issued by the last step
  lastOp             \* the handler that ran last

vars == <<customers, isLoading, fetching, sortOrder, sortImpl, debtorCustomers,
          showPaymentModal, selectedCustomer, paymentAmount, isPending, inflight,
          toastOut, invalidated, refetched, issued, lastOp>>

-----------------------------------------------------------------------------
(* Bounds *)

MaxCustomers == 3
MaxInFlight == 2

-----------------------------------------------------------------------------
(* JavaScript values *)

\* null / undefined for a string-valued field
Null == <<"null">>

\* `x && ...` / `!x` on a string | null
Truthy(s) == s # Null /\ s # <<>>

\* `x ?? d`
Coalesce(s, d) == IF s = Null THEN d ELSE s

NaN == [nan |-> TRUE, v |-> 0]
Num(n) == [nan |-> FALSE, v |-> n]

\* a - b on numbers
Minus(a, b) == IF a.nan \/ b.nan THEN NaN ELSE Num(a.v - b.v)
\* a > 0, a <= 0 (both false on NaN)
GtZero(a) == ~a.nan /\ a.v > 0
LeZero(a) == ~a.nan /\ a.v <= 0

DigitChars == <<"0", "1", "2", "3", "4", "5", "6", "7", "8", "9">>
IsDigit(c) == \E d \in 1..10 : DigitChars[d] = c
DigitVal(c) == (CHOOSE d \in 1..10 : DigitChars[d] = c) - 1

RECURSIVE DigitPrefixLen(_)
DigitPrefixLen(s) ==
  IF s = <<>> \/ ~IsDigit(Head(s)) THEN 0 ELSE 1 + DigitPrefixLen(Tail(s))

RECURSIVE DigitsValue(_, _)
DigitsValue(s, n) ==
  IF n = 0 THEN 0 ELSE 10 * DigitsValue(s, n - 1) + DigitVal(s[n])

\* the first two fraction digits, in hundredths
FractionValue(s, n) ==
  (IF n >= 1 THEN 10 * DigitVal(s[1]) ELSE 0) + (IF n >= 2 THEN DigitVal(s[2]) ELSE 0)

\* parseFloat: the longest prefix [+-] digits [. digits]; NaN when it holds no digit
parseFloat(s) ==
  LET signed == s # <<>> /\ Head(s) \in {"-", "+"}
      sign == IF s # <<>> /\ Head(s) = "-" THEN -1 ELSE 1
      body == IF signed THEN Tail(s) ELSE s
      ni == DigitPrefixLen(body)
      rest == SubSeq(body, ni + 1, Len(body))
      frac == IF rest # <<>> /\ Head(rest) = "." THEN Tail(rest) ELSE <<>>
      nf == DigitPrefixLen(frac)
  IN IF ni = 0 /\ nf = 0
       THEN NaN
       ELSE Num(sign * (100 * DigitsValue(body, ni) + FractionValue(frac, nf)))

RECURSIVE NatToString(_)
NatToString(n) ==
  IF n < 10 THEN <<DigitChars[n + 1]>>
  ELSE Append(NatToString(n \div 10), DigitChars[(n % 10) + 1])

\* Number.prototype.toFixed(2)
toFixed2(x) ==
  IF x.nan THEN <<"N", "a", "N">>
  ELSE LET a == IF x.v < 0 THEN 0 - x.v ELSE x.v
       IN (IF x.v < 0 THEN <<"-">> ELSE <<>>)
          \o NatToString(a \div 100)
          \o <<".", DigitChars[((a % 100) \div 10) + 1], DigitChars[(a % 10) + 1]>>

\* DayFromYear of ECMAScript's date algorithms
DayFromYear(y) ==
  365 * (y - 1970) + ((y - 1969) \div 4) - ((y - 1901) \div 100) + ((y - 1601) \div 400)

\* new Date(s).getTime() for the year-only form YYYY of the date-time string
\* format, NaN (Invalid Date) for "" and for text that is no date; the time
\* value is held in days (the code only subtracts time values)
DateGetTime(s) ==
  IF Len(s) = 4 /\ DigitPrefixLen(s) = 4
    THEN Num(DayFromYear(DigitsValue(s, 4)))
    ELSE NaN

-----------------------------------------------------------------------------
(* The Debtor List *)

\* a filter that lets a zero debt through
IsDebtorNonNegative(customer) ==
  /\ Truthy(customer.totalDebt)
  /\ LET d == parseFloat(customer.totalDebt) IN ~d.nan /\ d.v >= 0

\* the filter's predicate
IsDebtor(customer) ==
  Truthy(customer.totalDebt) /\ GtZero(parseFloat(customer.totalDebt))

\* the comparator handed to sort
CompareFn(a, b, order) ==
  IF order = "highest"
    THEN Minus(parseFloat(Coalesce(b.totalDebt, <<"0">>)),
               parseFloat(Coalesce(a.totalDebt, <<"0">>)))
    ELSE Minus(DateGetTime(Coalesce(b.createdAt, <<>>)),
               DateGetTime(Coalesce(a.createdAt, <<>>)))

\* SortCompare of Array.prototype.sort: a NaN result counts as +0
SortCompare(a, b, order) ==
  LET r == CompareFn(a, b, order) IN IF r.nan THEN 0 ELSE r.v

RECURSIVE InsertSorted(_, _, _)
InsertSorted(sorted, x, order) ==
  IF sorted = <<>> THEN <<x>>
  ELSE LET n == Len(sorted) IN
       IF SortCompare(sorted[n], x, order) > 0
         THEN Append(InsertSorted(SubSeq(sorted, 1, n - 1), x, order), sorted[n])
         ELSE Append(sorted, x)

RECURSIVE InsertionSort(_, _)
InsertionSort(s, order) ==
  IF s = <<>> THEN <<>>
  ELSE InsertSorted(InsertionSort(SubSeq(s, 1, Len(s) - 1), order), s[Len(s)], order)

RECURSIVE Merge(_, _, _)
Merge(l, r, order) ==
  IF l = <<>> THEN r
  ELSE IF r = <<>> THEN l
  ELSE IF SortCompare(Head(l), Head(r), order) <= 0
    THEN <<Head(l)>> \o Merge(Tail(l), r, order)
    ELSE <<Head(r)>> \o Merge(l, Tail(r), order)

RECURSIVE MergeSort(_, _)
MergeSort(s, order) ==
  IF Len(s) <= 1 THEN s
  ELSE LET mid == Len(s) \div 2 IN
       Merge(MergeSort(SubSeq(s, 1, mid), order),
             MergeSort(SubSeq(s, mid + 1, Len(s)), order), order)

\* Array.prototype.sort: stable; where the comparator is inconsistent the order
\* is implementation-defined, so the algorithm is the engine's
SortImpls == {"insertion", "merge"}
ArraySort(s, order, impl) ==
  IF impl = "insertion" THEN InsertionSort(s, order) ELSE MergeSort(s, order)

\* customers.filter(...).sort(...)
DeriveDebtors(cs, order, impl) == ArraySort(SelectSeq(cs, IsDebtor), order, impl)

-----------------------------------------------------------------------------
(* Data the model draws from *)

Ids == <<"c1", "c2", "c3", "c4">>
Customer(i, debt, created) == [id |-> Ids[i], totalDebt |-> debt, createdAt |-> created]

\* selectedCustomer = null
NullCustomer == [id |-> "", totalDebt |-> Null, createdAt |-> Null]

\* totalDebt and createdAt as the backend may send them.  A customer the filter
\* drops takes no part in the sort, so only debtors vary in createdAt.
CustomerShapes ==
  {[totalDebt |-> d, createdAt |-> Null] :
      d \in {Null, <<"0">>, <<"-", "5">>, <<"x">>}}
  \cup
  {[totalDebt |-> d, createdAt |-> t] :
      d \in {<<"5">>, <<"1", "2", ".", "5", "0">>},
      t \in {Null, <<"x">>, <<"1", "9", "7", "0">>, <<"2", "0", "2", "4">>}}

CollectionsOfLen(n) ==
  {[i \in 1..n |-> Customer(i, f[i].totalDebt, f[i].createdAt)] :
      f \in [1..n -> CustomerShapes]}

AllCollections == UNION {CollectionsOfLen(n) : n \in 0..MaxCustomers}

\* the collections the backend answers with while the dialog is exercised
FetchedCollections ==
  { <<Customer(1, <<"1", "2", ".", "5", "0">>, <<"2", "0", "2", "4">>),
      Customer(2, <<"5">>, Null),
      Customer(3, <<"0">>, Null)>>,
    <<Customer(1, <<"5">>, <<"2", "0", "2", "4">>),
      Customer(2, <<"5">>, Null)>> }

\* what a type="number" input reports as its value: "" or a valid number
AmountTexts == {<<>>, <<"0">>, <<"-", "5">>, <<"5">>, <<"7", ".", "5">>}

Currency == "USD"

NoRequest == [customerId |-> "", amount |-> NaN, currency |-> ""]

\* the JSON body of a successful response: newDebt may be missing
NoData == [hasNewDebt |-> FALSE, newDebt |-> Num(0)]
ResponseData ==
  {NoData} \cup {[hasNewDebt |-> TRUE, newDebt |-> Num(n)] : n \in {0, 750}}

\* how apiRequest ends: it throws, or resolves with response.ok and a body
Responses ==
  {[thrown |-> TRUE, ok |-> FALSE, data |-> NoData],
   [thrown |-> FALSE, ok |-> FALSE, data |-> NoData]}
  \cup {[thrown |-> FALSE, ok |-> TRUE, data |-> d] : d \in ResponseData}

NoToast == [title |-> "", variant |-> "", paid |-> <<>>, remaining |-> <<>>]
\* title "تم السداد بنجاح", description "تم دفع <paid> ... الرصيد المتبقي: <remaining>"
SuccessToast(paid, remaining) ==
  [title |-> "payment done", variant |-> "default", paid |-> paid, remaining |-> remaining]
\* title "خطأ في السداد"
FailureToast ==
  [title |-> "payment error", variant |-> "destructive", paid |-> <<>>, remaining |-> <<>>]
\* title "خطأ", description "يجب أن يكون المبلغ أكبر من صفر"
ValidationToast ==
  [title |-> "error", variant |-> "destructive", paid |-> <<>>, remaining |-> <<>>]

CustomersKey == "/api/customers"
TransactionsKey == "/api/transactions"

-----------------------------------------------------------------------------
(* Bookkeeping shared by the handlers *)

\* the dialog state a handler starts from
Before == [show |-> showPaymentModal, sel |-> selectedCustomer, amt |-> paymentAmount]

Op(name, customer, req, data) ==
  [name |-> name, customer |-> customer, req |-> req, data |-> data, before |-> Before]

\* the component function runs again: the list is derived anew
Render == debtorCustomers' = DeriveDebtors(customers', sortOrder', sortImpl')

\* a step that notifies nobody and sends nothing
Quiet ==
  /\ toastOut' = NoToast
  /\ invalidated' = {}
  /\ refetched' = {}
  /\ issued' = <<>>

-----------------------------------------------------------------------------
(* The customer query *)

QuerySuccess(cs) ==
  /\ fetching
  /\ customers' = cs
  /\ isLoading' = FALSE
  /\ fetching' = FALSE
  /\ lastOp' = Op("querySuccess", NullCustomer, NoRequest, NoData)
  /\ Quiet
  /\ UNCHANGED <<sortOrder, sortImpl, showPaymentModal, selectedCustomer,
                 paymentAmount, isPending, inflight>>
  /\ Render

\* retry: false
QueryError ==
  /\ fetching
  /\ isLoading' = FALSE
  /\ fetching' = FALSE
  /\ lastOp' = Op("queryError", NullCustomer, NoRequest, NoData)
  /\ Quiet
  /\ UNCHANGED <<customers, sortOrder, sortImpl, showPaymentModal, selectedCustomer,
                 paymentAmount, isPending, inflight>>
  /\ Render

\* the component renders again with nothing changed
Rerender ==
  /\ UNCHANGED <<customers, isLoading, fetching, sortOrder, sortImpl, showPaymentModal,
                 selectedCustomer, paymentAmount, isPending, inflight, toastOut,
                 invalidated, refetched, issued, lastOp>>
  /\ Render

-----------------------------------------------------------------------------
(* The list *)

\* Select onValueChange; the open dialog is modal and covers the list
setSortOrder(value) ==
  /\ ~showPaymentModal
  /\ sortOrder' = value
  /\ lastOp' = Op("setSortOrder", NullCustomer, NoRequest, NoData)
  /\ Quiet
  /\ UNCHANGED <<customers, isLoading, fetching, sortImpl, showPaymentModal,
                 selectedCustomer, paymentAmount, isPending, inflight>>
  /\ Render

\* an open that keeps the draft of the dialog's last use
DraftOnOpenKept == paymentAmount

\* setPaymentAmount("") of openPaymentModal
DraftOnOpen == <<>>

openPaymentModal(customer) ==
  /\ selectedCustomer' = customer
  /\ paymentAmount' = DraftOnOpen
  /\ showPaymentModal' = TRUE
  /\ lastOp' = Op("openPaymentModal", customer, NoRequest, NoData)
  /\ Quiet
  /\ UNCHANGED <<customers, isLoading, fetching, sortOrder, sortImpl, isPending, inflight>>
  /\ Render

\* the row's pay button: rendered once loaded, for each debtor
PayClick ==
  /\ ~isLoading
  /\ ~showPaymentModal
  /\ \E i \in 1..Len(debtorCustomers) : openPaymentModal(debtorCustomers[i])

-----------------------------------------------------------------------------
(* The payment dialog *)

\* the dialog's content is rendered
DialogContentShown == showPaymentModal /\ selectedCustomer # NullCustomer

\* Input onChange
setPaymentAmount(text) ==
  /\ DialogContentShown
  /\ paymentAmount' = text
  /\ lastOp' = Op("setPaymentAmount", NullCustomer, NoRequest, NoData)
  /\ Quiet
  /\ UNCHANGED <<customers, isLoading, fetching, sortOrder, sortImpl, showPaymentModal,
                 selectedCustomer, isPending, inflight>>
  /\ Render

\* paymentMutation.mutate(variables): the request leaves, the mutation is pending
mutate(req) ==
  /\ Len(inflight) < MaxInFlight
  /\ inflight' = Append(inflight, req)
  /\ isPending' = TRUE
  /\ issued' = <<req>>
  /\ toastOut' = NoToast

\* an amount test that lets zero through
AmountRejectedBelowZero(amount) == ~amount.nan /\ amount.v < 0

\* the amount test of handlePayment
AmountRejected(amount) == LeZero(amount)

handlePayment ==
  /\ lastOp' = Op("handlePayment", NullCustomer, NoRequest, NoData)
  /\ invalidated' = {}
  /\ refetched' = {}
  /\ UNCHANGED <<customers, isLoading, fetching, sortOrder, sortImpl, showPaymentModal,
                 selectedCustomer, paymentAmount>>
  /\ Render
  /\ IF selectedCustomer = NullCustomer \/ ~Truthy(paymentAmount)
       THEN /\ toastOut' = NoToast
            /\ issued' = <<>>
            /\ UNCHANGED <<isPending, inflight>>
       ELSE LET amount == parseFloat(paymentAmount) IN
            IF AmountRejected(amount)
              THEN /\ toastOut' = ValidationToast
                   /\ issued' = <<>>
                   /\ UNCHANGED <<isPending, inflight>>
              ELSE mutate([customerId |-> selectedCustomer.id,
                           amount |-> amount,
                           currency |-> Currency])

\* a confirm button that stays enabled while the mutation is pending
ConfirmDisabledIgnoresPending == ~Truthy(paymentAmount)

\* disabled of the confirm button
ConfirmDisabled == ~Truthy(paymentAmount) \/ isPending

\* disabled of the cancel button
CancelDisabled == isPending

ConfirmClick ==
  /\ DialogContentShown
  /\ ~ConfirmDisabled
  /\ handlePayment

CancelClick ==
  /\ DialogContentShown
  /\ ~CancelDisabled
  /\ showPaymentModal' = FALSE
  /\ lastOp' = Op("cancel", NullCustomer, NoRequest, NoData)
  /\ Quiet
  /\ UNCHANGED <<customers, isLoading, fetching, sortOrder, sortImpl, selectedCustomer,
                 paymentAmount, isPending, inflight>>
  /\ Render

\* Dialog onOpenChange={setShowPaymentModal}: the dialog asks to close (escape
\* key, click outside, close button)
onOpenChange(open) ==
  /\ showPaymentModal
  /\ showPaymentModal' = open
  /\ lastOp' = Op("onOpenChange", NullCustomer, NoRequest, NoData)
  /\ Quiet
  /\ UNCHANGED <<customers, isLoading, fetching, sortOrder, sortImpl, selectedCustomer,
                 paymentAmount, isPending, inflight>>
  /\ Render

-----------------------------------------------------------------------------
(* The payment mutation *)

\* mutationFn rejects
MutationFails(resp) == resp.thrown \/ ~resp.ok

\* data.newDebt || 0
NewDebtOrZero(data) ==
  IF data.hasNewDebt /\ ~data.newDebt.nan /\ data.newDebt.v # 0
    THEN data.newDebt ELSE Num(0)

\* an onSuccess that invalidates and refetches nothing at once
RefetchedOnSuccessNone == {}

\* the query keys onSuccess refetches
RefetchedOnSuccess == {CustomersKey}

\* an onSuccess that closes the dialog and keeps its draft
DialogAfterSuccessKept ==
  [show |-> FALSE, sel |-> selectedCustomer, amt |-> paymentAmount]

\* the dialog state onSuccess sets
DialogAfterSuccess == [show |-> FALSE, sel |-> NullCustomer, amt |-> <<>>]

\* the amount text onSuccess puts in its notification: the callback of the
\* latest render, so the paymentAmount of the moment it runs
PaidText(req) == paymentAmount

onSuccess(req, data) ==
  /\ invalidated' = {CustomersKey, TransactionsKey}
  /\ refetched' = RefetchedOnSuccess
  /\ fetching' = TRUE
  /\ toastOut' = SuccessToast(PaidText(req), toFixed2(NewDebtOrZero(data)))
  /\ showPaymentModal' = DialogAfterSuccess.show
  /\ selectedCustomer' = DialogAfterSuccess.sel
  /\ paymentAmount' = DialogAfterSuccess.amt
  /\ lastOp' = Op("onSuccess", NullCustomer, req, data)

\* an onError that resets the dialog as onSuccess does
DialogAfterErrorReset == [show |-> FALSE, sel |-> NullCustomer, amt |-> <<>>]

\* what onError leaves of the dialog: it sets no state
DialogAfterError == Before

onError(req) ==
  /\ toastOut' = FailureToast
  /\ invalidated' = {}
  /\ refetched' = {}
  /\ showPaymentModal' = DialogAfterError.show
  /\ selectedCustomer' = DialogAfterError.sel
  /\ paymentAmount' = DialogAfterError.amt
  /\ lastOp' = Op("onError", NullCustomer, req, NoData)
  /\ UNCHANGED fetching

\* the oldest request in flight completes
MutationSettled(resp) ==
  /\ inflight # <<>>
  /\ inflight' = Tail(inflight)
  /\ isPending' = (Tail(inflight) # <<>>)
  /\ issued' = <<>>
  /\ UNCHANGED <<customers, isLoading, sortOrder, sortImpl>>
  /\ IF MutationFails(resp)
       THEN onError(Head(inflight))
       ELSE onSuccess(Head(inflight), resp.data)
  /\ Render

MutationSuccess == \E resp \in Responses : ~MutationFails(resp) /\ MutationSettled(resp)
MutationError == \E resp \in Responses : MutationFails(resp) /\ MutationSettled(resp)

-----------------------------------------------------------------------------
(* Specifications *)

InitDialog ==
  /\ sortOrder = "highest"
  /\ showPaymentModal = FALSE
  /\ selectedCustomer = NullCustomer
  /\ paymentAmount = <<>>
  /\ isPending = FALSE
  /\ inflight = <<>>
  /\ toastOut = NoToast
  /\ invalidated = {}
  /\ refetched = {}
  /\ issued = <<>>
  /\ lastOp = [name |-> "init", customer |-> NullCustomer, req |-> NoRequest,
               data |-> NoData,
               before |-> [show |-> FALSE, sel |-> NullCustomer, amt |-> <<>>]]

\* the component as mounted: the query is loading, its data defaults to []
Init ==
  /\ InitDialog
  /\ customers = <<>>
  /\ isLoading = TRUE
  /\ fetching = TRUE
  /\ sortImpl \in SortImpls
  /\ debtorCustomers = DeriveDebtors(customers, sortOrder, sortImpl)

Next ==
  \/ \E cs \in FetchedCollections : QuerySuccess(cs)
  \/ QueryError
  \/ Rerender
  \/ \E value \in {"highest", "newest"} : setSortOrder(value)
  \/ PayClick
  \/ \E text \in AmountTexts : setPaymentAmount(text)
  \/ ConfirmClick
  \/ CancelClick
  \/ onOpenChange(FALSE)
  \/ MutationSuccess
  \/ MutationError

Spec == Init /\ [][Next]_vars

\* handlePayment exercised as a unit: called whatever the confirm button's
\* disabled attribute says
HandlePaymentCall == handlePayment

NextHandler ==
  \/ Next
  \/ HandlePaymentCall

SpecHandler == Init /\ [][NextHandler]_vars

\* the derivation over every customer collection, once the query has answered
InitList ==
  /\ InitDialog
  /\ customers \in AllCollections
  /\ isLoading = FALSE
  /\ fetching = FALSE
  /\ sortImpl \in SortImpls
  /\ debtorCustomers = DeriveDebtors(customers, sortOrder, sortImpl)

NextList ==
  \/ \E value \in {"highest", "newest"} : setSortOrder(value)
  \/ Rerender

SpecList == InitList /\ [][NextList]_vars

-----------------------------------------------------------------------------
(* Properties *)

AmountEmpty == ~Truthy(paymentAmount)
AmountNotPositive == ~GtZero(parseFloat(paymentAmount))
HandlePaymentRan == lastOp.name = "handlePayment" /\ selectedCustomer # NullCustomer
DialogIsBefore ==
  /\ showPaymentModal = lastOp.before.show
  /\ selectedCustomer = lastOp.before.sel
  /\ paymentAmount = lastOp.before.amt
DialogIsReset ==
  /\ ~showPaymentModal
  /\ selectedCustomer = NullCustomer
  /\ paymentAmount = <<>>

C2_FailurePreservesDialog ==
  lastOp.name = "onError" =>
    /\ toastOut = FailureToast
    /\ DialogIsBefore
    /\ invalidated = {}
    /\ refetched = {}

C2_Witness ==
  /\ lastOp.name = "onError"
  /\ showPaymentModal
  /\ selectedCustomer.id = lastOp.req.customerId
  /\ paymentAmount = <<"5">>
  /\ toastOut = FailureToast

\* C3, as stated: when a payment request succeeds the dialog is closed, no
\* customer is selected, the draft is empty, and the success notification
\* states the amount the request carried and the response's newDebt, a
\* missing newDebt as zero.
C3_SuccessResets ==
  lastOp.name = "onSuccess" =>
    /\ DialogIsReset
    /\ toastOut.title = "payment done"
    /\ parseFloat(toastOut.paid) = lastOp.req.amount
    /\ parseFloat(toastOut.remaining)
         = (IF lastOp.data.hasNewDebt THEN lastOp.data.newDebt ELSE Num(0))

\* C4, as stated: a successful payment invalidates and refetches both the
\* customer and the transaction collection; no other step invalidates or
\* refetches anything.
C4_Original ==
  /\ lastOp.name = "onSuccess" =>
       /\ invalidated = {CustomersKey, TransactionsKey}
       /\ refetched = {CustomersKey, TransactionsKey}
  /\ lastOp.name # "onSuccess" => (invalidated = {} /\ refetched = {})

\* C4, amended: a successful payment invalidates both the customer and the
\* transaction collection and refetches the customer collection only; no
\* other step invalidates or refetches anything.
C4_InvalidateBothRefetchCustomers ==
  /\ lastOp.name = "onSuccess" =>
       /\ invalidated = {CustomersKey, TransactionsKey}
       /\ refetched = {CustomersKey}
  /\ lastOp.name # "onSuccess" => (invalidated = {} /\ refetched = {})

C4_Witness ==
  /\ lastOp.name = "onSuccess"
  /\ invalidated = {CustomersKey, TransactionsKey}
  /\ refetched = {CustomersKey}
  /\ fetching

\* C5: opening the payment dialog for a customer leaves that customer
\* selected, the draft empty and the dialog open, and issues no request,
\* whatever the dialog held before.
C5_OpenInitializes ==
  lastOp.name = "openPaymentModal" =>
    /\ lastOp.customer # NullCustomer
    /\ selectedCustomer = lastOp.customer
    /\ paymentAmount = <<>>
    /\ showPaymentModal
    /\ issued = <<>>

\* opened over what a cancel left of another customer's dialog
C5_Witness ==
  /\ lastOp.name = "openPaymentModal"
  /\ lastOp.before.sel # NullCustomer
  /\ lastOp.before.sel.id # selectedCustomer.id
  /\ lastOp.before.amt # <<>>
  /\ paymentAmount = <<>>

\* C6, as stated: once the dialog is closed by a successful payment, the
\* cancel button or a dismissal, no customer is selected and the draft is empty.
C6_Original ==
  (lastOp.name \in {"onSuccess", "cancel", "onOpenChange"} /\ ~showPaymentModal)
    => (selectedCustomer = NullCustomer /\ paymentAmount = <<>>)

\* C6, amended: a successful payment closes the dialog, clears the selection
\* and empties the draft; the cancel button and a dismissal close the dialog
\* and leave the selected customer and the draft as they were.
C6_DraftAfterClose ==
  /\ lastOp.name = "onSuccess" => DialogIsReset
  /\ lastOp.name \in {"cancel", "onOpenChange"} =>
       /\ ~showPaymentModal
       /\ selectedCustomer = lastOp.before.sel
       /\ paymentAmount = lastOp.before.amt

C6_Witness ==
  /\ lastOp.name = "cancel"
  /\ ~showPaymentModal
  /\ selectedCustomer # NullCustomer
  /\ paymentAmount # <<>>

C8_Membership ==
  /\ \A i \in 1..Len(customers) :
       (\E j \in 1..Len(debtorCustomers) : debtorCustomers[j] = customers[i])
         <=> /\ customers[i].totalDebt # Null
             /\ customers[i].totalDebt # <<>>
             /\ GtZero(parseFloat(customers[i].totalDebt))
  /\ \A j \in 1..Len(debtorCustomers) :
       \E i \in 1..Len(customers) : debtorCustomers[j] = customers[i]
  /\ \A j, k \in 1..Len(debtorCustomers) :
       j # k => debtorCustomers[j].id # debtorCustomers[k].id
  /\ DeriveDebtors(customers, sortOrder, sortImpl) = debtorCustomers

\* zero, absent and positive debts side by side, after a change of sort order
C8_Witness ==
  /\ lastOp.name = "setSortOrder"
  /\ Len(customers) = 3
  /\ customers[1].totalDebt = <<"0">>
  /\ customers[2].totalDebt = <<"1", "2", ".", "5", "0">>
  /\ customers[3].totalDebt = Null
  /\ debtorCustomers = <<customers[2]>>

\* createdAt as a time value, the epoch start when absent or unparsable
TimeOrEpoch(customer) ==
  LET t == DateGetTime(Coalesce(customer.createdAt, <<>>)) IN IF t.nan THEN 0 ELSE t.v

\* C9, as stated: under `highest` the parsed totalDebt values of the Debtor
\* List never increase; under `newest` its createdAt time values never
\* increase, an absent or unparsable createdAt counting as the epoch start.
C9_Ordering ==
  \A j \in 1..(Len(debtorCustomers) - 1) :
    IF sortOrder = "highest"
      THEN parseFloat(debtorCustomers[j].totalDebt).v
             >= parseFloat(debtorCustomers[j + 1].totalDebt).v
      ELSE TimeOrEpoch(debtorCustomers[j]) >= TimeOrEpoch(debtorCustomers[j + 1])

\* C10, as stated: while a payment request is in flight the dialog stays open
\* on the customer the payment was submitted for, and the success callback
\* closes the dialog of that customer.
C10_NoCloseWhileInFlight ==
  /\ inflight # <<>> =>
       /\ showPaymentModal
       /\ selectedCustomer.id = Head(inflight).customerId
  /\ lastOp.name = "onSuccess" =>
       /\ lastOp.before.show
       /\ lastOp.before.sel.id = lastOp.req.customerId

====
